---- MODULE Spec2Model ----
(***************************************************************************)
(* Model of qwery-ai: the Query Service (src/app.py) and the Batch Loader  *)
(* (src/etl/etl_load_pgvector.py) over one shared `documents` table.       *)
(*                                                                         *)
(* Texts are indices into a small corpus.  An embedding is a direction in  *)
(* the plane, a multiple of 45 degrees (0..7); cosine values are kept in   *)
(* thousandths, so 0.7 is 700 and cos(45 deg) is 707.                      *)
(*                                                                         *)
(* A row is (id, content, embedding, created_at); metadata and updated_at  *)
(* are written and never read by the code, and are left out.  Time ticks   *)
(* once per committed transaction, and every row of a transaction gets the *)
(* transaction's CURRENT_TIMESTAMP.  Ids are given in commit order; the    *)
(* sequence values a rolled-back transaction draws are not modelled.       *)
(*                                                                         *)
(* A Query Service handler is one step.  The Batch Loader is a process     *)
(* that takes one step per stage of run_etl and a last one for main's      *)
(* exit.  Statements are taken by their SQL meaning; where SQL leaves the  *)
(* order of rows open, every order is a possible answer.                   *)
(***************************************************************************)
EXTENDS Integers, Sequences, FiniteSets, TLC

\* ---------------------------------------------------------------- bounds
MaxText == 1
MaxFiles == 2
MaxId == 3
MaxLimit == 1

\* ------------------------------------------------------ program constants
DefaultThreshold == 700
None == -1

VARIABLES
    \* the database
    table,          \* committed rows of `documents`
    id_seq,         \* the id the next committed row gets (documents.id is SERIAL)
    now,            \* CURRENT_TIMESTAMP of the next transaction
    dbUp,           \* whether psycopg2.connect succeeds
    \* the Query Service: the handler that ran last
    request,        \* what it was called with, kept when it answered with rows
    response,       \* what it answered
    conn,           \* state of the connection it opened, once it has returned
    sweep,          \* the pages a client has read since the last write or other
                    \* request: list(l, 0), list(l, l), list(l, 2l), ...
    \* the Batch Loader process
    pc,             \* position of main / run_etl
    etlConn,        \* self.conn
    model,          \* self.model is loaded
    documents,      \* the pending documents of run_etl
    encodeFailed,   \* the documents for which model.encode raised
    loaded_count,   \* what load_to_pgvector returned
    success,        \* what run_etl returned
    raised,         \* an exception escaped run_etl
    exit_code,      \* the process's exit code
    stages,         \* the stages executed so far, with their outcome
    loadFailed,     \* load_to_pgvector met a storage error
    committed       \* ids of the rows this run committed

dbVars == <<table, id_seq, now, dbUp>>
apiVars == <<request, response, conn, sweep>>
etlVars == <<pc, etlConn, model, documents, encodeFailed, loaded_count, success,
             raised, exit_code, stages, loadFailed, committed>>
vars == <<table, id_seq, now, dbUp, request, response, conn, sweep,
          pc, etlConn, model, documents, encodeFailed, loaded_count, success,
          raised, exit_code, stages, loadFailed, committed>>

\* cos of 0, 45, 90, 135 and 180 degrees, in thousandths.
CosTable == <<1000, 707, 0, -707, -1000>>

Texts == 0..MaxText
Limits == -1..MaxLimit
Offsets == -1..MaxId
\* 0.7, the default, and cos(45 deg), the similarity of neighbouring directions.
Thresholds == {DefaultThreshold, CosTable[2]}

\* ------------------------------------------------------------- embeddings
\* The embedding provider: a fixed map from a text to a direction.
EmbeddingOf(text) == (7 * text + 1) % 8

\* pgvector's <=> : cosine distance of two directions.
cosine_distance(a, b) ==
    LET d == IF a >= b THEN a - b ELSE b - a
        folded == IF d > 4 THEN 8 - d ELSE d
    IN  1000 - CosTable[folded + 1]

\* 1 - (embedding <=> q)
similarity(row, q) == 1000 - cosine_distance(row.embedding, q)

\* --------------------------------------------------------------- ordering
Min(a, b) == IF a <= b THEN a ELSE b

\* ORDER BY created_at DESC: every order of the rows the clause allows.  Rows of
\* equal created_at may come in any order, and in a different one per query.
RECURSIVE ByCreatedAtDesc(_)
ByCreatedAtDesc(rows) ==
    IF rows = {} THEN {<<>>}
    ELSE UNION {{<<r>> \o rest : rest \in ByCreatedAtDesc(rows \ {r})} :
                r \in {x \in rows : \A y \in rows : x.created_at >= y.created_at}}

\* ORDER BY embedding <=> q: every order the clause allows.
RECURSIVE ByDistance(_, _)
ByDistance(rows, q) ==
    IF rows = {} THEN {<<>>}
    ELSE UNION {{<<r>> \o rest : rest \in ByDistance(rows \ {r}, q)} :
                r \in {x \in rows : \A y \in rows :
                          cosine_distance(x.embedding, q)
                              <= cosine_distance(y.embedding, q)}}

\* LIMIT limit OFFSET offset
LimitOffset(s, limit, offset) == SubSeq(s, offset + 1, Min(offset + limit, Len(s)))

\* Mutant of Qualifies: the filter written with >= instead of >.
QualifiesAtLeast(row, q, threshold) == similarity(row, q) >= threshold

\* WHERE 1 - (embedding <=> q) > threshold
Qualifies(row, q, threshold) == similarity(row, q) > threshold

\* ---------------------------------------------------------- Query Service
Req(op, text, limit, offset, threshold) ==
    [op |-> op, text |-> text, limit |-> limit, offset |-> offset,
     threshold |-> threshold]

Resp(op, status, detail, id, rows) ==
    [op |-> op, status |-> status, detail |-> detail, id |-> id, rows |-> rows]

NoSweep == [limit |-> 0, next |-> 0, acc |-> <<>>, done |-> FALSE]

\* Where a handler can fail.  get_db_connection raises exactly when the database
\* is unreachable; the embedding provider and a statement can fail at any time.
CanFailAt(failAt) ==
    \/ failAt = "embedding"
    \/ IF dbUp THEN failAt # "connect" ELSE failAt = "connect"

\* The state the handler leaves its connection in: conn.close() is reached only
\* on the path on which nothing raised.
ConnAfter(failAt) ==
    CASE failAt = "none" -> "closed"
      [] failAt \in {"embedding", "connect"} -> "none"
      [] OTHER -> "open"

\* Mutant of Persisted: an autocommit connection, on which the INSERT persists
\* the row although a later step raises.
PersistedAutocommit(failAt) == failAt \in {"none", "commit"}

\* The row of add_document is persisted when conn.commit() returned.
Persisted(failAt) == failAt = "none"

\* GET /health
health_check ==
    /\ request' = Req("health_check", 0, 0, 0, 0)
    /\ response' = Resp("health_check", 200, "healthy", 0, <<>>)
    /\ conn' = "none"
    /\ sweep' = NoSweep
    /\ UNCHANGED <<dbVars, etlVars>>

\* Mutant of ReadyStatus: the failure of get_db_connection swallowed.
ReadyAlways(connected) == 200

\* What /ready answers, given whether get_db_connection returned.
ReadyStatus(connected) == IF connected THEN 200 ELSE 503

\* GET /ready
readiness_check ==
    /\ request' = Req("readiness_check", 0, 0, 0, 0)
    /\ response' = Resp("readiness_check", ReadyStatus(dbUp),
                        IF ReadyStatus(dbUp) = 200 THEN "ready" ELSE "connect", 0, <<>>)
    /\ conn' = IF dbUp THEN "closed" ELSE "none"
    /\ sweep' = NoSweep
    /\ UNCHANGED <<dbVars, etlVars>>

\* POST /api/documents.  A request that fails leaves nothing of its arguments
\* in the state, so they are drawn where the statement runs.  (The guard keeps
\* the ids within MaxId.)
add_document ==
    /\ id_seq <= MaxId
    /\ \E failAt \in {"none", "embedding", "connect", "execute", "commit"} :
        /\ CanFailAt(failAt)
        /\ request' = Req("add_document", 0, 0, 0, 0)
        /\ conn' = ConnAfter(failAt)
        /\ sweep' = NoSweep
        /\ IF Persisted(failAt)
             THEN \E text \in Texts :
                    LET row == [id |-> id_seq, content |-> text,
                                embedding |-> EmbeddingOf(text), created_at |-> now]
                    IN  /\ table' = table \cup {row}
                        /\ id_seq' = id_seq + 1
                        /\ now' = now + 1
                        /\ response' =
                              IF failAt = "none"
                                THEN Resp("add_document", 200, "success", row.id, <<>>)
                                ELSE Resp("add_document", 500, failAt, 0, <<>>)
             ELSE /\ UNCHANGED <<table, id_seq, now>>
                  /\ response' = Resp("add_document", 500, failAt, 0, <<>>)
    /\ UNCHANGED <<dbUp, etlVars>>

\* The rows of the search statement: filter, order, limit.
SearchRows(ord, q, limit) ==
    LET page == LimitOffset(ord, limit, 0)
    IN  [i \in 1..Len(page) |->
            [id |-> page[i].id, similarity |-> similarity(page[i], q)]]

\* POST /api/search.  A negative LIMIT makes the statement raise: the request
\* fails at "execute".
search_documents ==
    /\ \E failAt \in {"none", "embedding", "connect", "execute"} :
        /\ CanFailAt(failAt)
        /\ conn' = ConnAfter(failAt)
        /\ IF failAt = "none"
             THEN \E text \in Texts, limit \in Limits, threshold \in Thresholds :
                    /\ limit >= 0
                    /\ request' = Req("search_documents", text, limit, 0, threshold)
                    /\ \E ord \in ByDistance(
                            {r \in table : Qualifies(r, EmbeddingOf(text), threshold)},
                            EmbeddingOf(text)) :
                         response' = Resp("search_documents", 200, "success", 0,
                                          SearchRows(ord, EmbeddingOf(text), limit))
             ELSE /\ request' = Req("search_documents", 0, 0, 0, 0)
                  /\ response' = Resp("search_documents", 500, failAt, 0, <<>>)
    /\ sweep' = NoSweep
    /\ UNCHANGED <<dbVars, etlVars>>

ListRows(ord, limit, offset) ==
    LET page == LimitOffset(ord, limit, offset)
    IN  [i \in 1..Len(page) |-> [id |-> page[i].id, created_at |-> page[i].created_at]]

Ids(rows) == [i \in 1..Len(rows) |-> rows[i].id]

\* The sweep after list(limit, offset) returned `rows`: offset 0 starts a sweep,
\* the next offset of the sweep under way continues it, an empty page ends it.
SweepAfter(sw, limit, offset, rows) ==
    IF limit >= 1 /\ offset = 0
      THEN [limit |-> limit, next |-> limit, acc |-> Ids(rows), done |-> rows = <<>>]
    ELSE IF sw.limit >= 1 /\ ~sw.done /\ limit = sw.limit /\ offset = sw.next
      THEN [sw EXCEPT !.next = sw.next + limit, !.acc = sw.acc \o Ids(rows),
                      !.done = (rows = <<>>)]
    ELSE sw

\* GET /api/documents.  A negative LIMIT or OFFSET makes the statement raise: the
\* request fails at "execute".
list_documents ==
    /\ \E failAt \in {"none", "connect", "execute"} :
        /\ CanFailAt(failAt)
        /\ conn' = ConnAfter(failAt)
        /\ IF failAt = "none"
             THEN \E limit \in Limits, offset \in Offsets :
                    /\ limit >= 0 /\ offset >= 0
                    /\ request' = Req("list_documents", 0, limit, offset, 0)
                    /\ \E ord \in ByCreatedAtDesc(table) :
                        /\ response' = Resp("list_documents", 200, "success", 0,
                                            ListRows(ord, limit, offset))
                        /\ sweep' = SweepAfter(sweep, limit, offset,
                                               ListRows(ord, limit, offset))
             ELSE /\ request' = Req("list_documents", 0, 0, 0, 0)
                  /\ response' = Resp("list_documents", 500, failAt, 0, <<>>)
                  /\ sweep' = sweep
    /\ UNCHANGED <<dbVars, etlVars>>

\* The database becomes unreachable, or reachable again.
db_down ==
    /\ dbUp
    /\ dbUp' = FALSE
    /\ UNCHANGED <<table, id_seq, now, apiVars, etlVars>>

db_up ==
    /\ ~dbUp
    /\ dbUp' = TRUE
    /\ UNCHANGED <<table, id_seq, now, apiVars, etlVars>>

\* ----------------------------------------------------------- Batch Loader
StageOrder == <<"connect_db", "initialize_pgvector", "load_embedding_model",
                "extract_documents", "generate_embeddings", "load_to_pgvector">>

\* Mutant of StageAfter: the result of initialize_pgvector is not looked at.
StageAfterIgnoreSchema(stage, ok) ==
    CASE stage = "connect_db" -> IF ok THEN "initialize_pgvector" ELSE "exit"
      [] stage = "initialize_pgvector" -> "load_embedding_model"
      [] stage = "load_embedding_model" -> IF ok THEN "extract_documents" ELSE "exit"
      [] stage = "extract_documents" -> IF ok THEN "generate_embeddings" ELSE "exit"
      [] stage = "generate_embeddings" -> "load_to_pgvector"
      [] OTHER -> "exit"

\* run_etl's control flow: where it goes after a stage that returned ok (for
\* extract_documents: a non-empty list).  Embed and load never end the run.
StageAfter(stage, ok) ==
    CASE stage = "connect_db" -> IF ok THEN "initialize_pgvector" ELSE "exit"
      [] stage = "initialize_pgvector" -> IF ok THEN "load_embedding_model" ELSE "exit"
      [] stage = "load_embedding_model" -> IF ok THEN "extract_documents" ELSE "exit"
      [] stage = "extract_documents" -> IF ok THEN "generate_embeddings" ELSE "exit"
      [] stage = "generate_embeddings" -> "load_to_pgvector"
      [] OTHER -> "exit"

Log(stage, ok) == Append(stages, [name |-> stage, ok |-> ok])

\* A statement, a commit or a rollback can succeed only on a live connection.
Outcomes == IF dbUp THEN BOOLEAN ELSE {FALSE}

\* Step 1
connect_db ==
    /\ pc = "connect_db"
    /\ etlConn' = IF dbUp THEN "open" ELSE etlConn
    /\ stages' = Log("connect_db", dbUp)
    /\ pc' = StageAfter("connect_db", dbUp)
    /\ UNCHANGED <<model, documents, encodeFailed, loaded_count, success, raised,
                   exit_code, loadFailed, committed, dbVars, apiVars>>

\* Step 2.  On a failure the handler rolls back; a rollback that raises leaves
\* run_etl by the exception.
initialize_pgvector ==
    /\ pc = "initialize_pgvector"
    /\ \E ok \in Outcomes, rollback \in Outcomes :
        /\ stages' = Log("initialize_pgvector", ok)
        /\ raised' = (~ok /\ ~rollback)
        /\ pc' = IF raised' THEN "exit" ELSE StageAfter("initialize_pgvector", ok)
    /\ UNCHANGED <<etlConn, model, documents, encodeFailed, loaded_count, success,
                   exit_code, loadFailed, committed, dbVars, apiVars>>

\* Step 3
load_embedding_model ==
    /\ pc = "load_embedding_model"
    /\ \E ok \in BOOLEAN :
        /\ model' = ok
        /\ stages' = Log("load_embedding_model", ok)
        /\ pc' = StageAfter("load_embedding_model", ok)
    /\ UNCHANGED <<etlConn, documents, encodeFailed, loaded_count, success, raised,
                   exit_code, loadFailed, committed, dbVars, apiVars>>

\* Every list of pending documents the source directory can give: its first n
\* readable text files, none when the directory is missing or holds no such file.
\* File i holds text (i - 1) of the corpus, and no document has an embedding yet.
Extractable ==
    {[i \in 1..n |-> [content |-> (i - 1) % (MaxText + 1), embedding |-> None]] :
        n \in 0..MaxFiles}

\* Step 4
extract_documents ==
    /\ pc = "extract_documents"
    /\ \E docs \in Extractable :
        /\ documents' = docs
        /\ stages' = Log("extract_documents", docs # <<>>)
        /\ pc' = StageAfter("extract_documents", docs # <<>>)
    /\ UNCHANGED <<etlConn, model, encodeFailed, loaded_count, success, raised,
                   exit_code, loadFailed, committed, dbVars, apiVars>>

\* Mutant of EmbedAll: the first model.encode that raises ends the loop, and the
\* documents after it are left without an embedding.
EmbedAllStopAtFailure(docs, failed) ==
    [i \in 1..Len(docs) |->
        [docs[i] EXCEPT !.embedding =
            IF \E j \in failed : j <= i THEN None ELSE EmbeddingOf(docs[i].content)]]

\* The loop of generate_embeddings: model.encode raises for the documents in
\* `failed`; each of those gets None and the loop goes on.
EmbedAll(docs, failed) ==
    [i \in 1..Len(docs) |->
        [docs[i] EXCEPT !.embedding =
            IF i \in failed THEN None ELSE EmbeddingOf(docs[i].content)]]

\* Step 5
generate_embeddings ==
    /\ pc = "generate_embeddings"
    /\ \E failed \in SUBSET (1..Len(documents)) :
        /\ documents' = IF ~model THEN documents ELSE EmbedAll(documents, failed)
        /\ encodeFailed' = failed
        /\ stages' = Log("generate_embeddings", TRUE)
        /\ pc' = StageAfter("generate_embeddings", TRUE)
    /\ UNCHANGED <<etlConn, model, loaded_count, success, raised, exit_code,
                   loadFailed, committed, dbVars, apiVars>>

\* doc.get('embedding') is None
Skipped(doc) == doc.embedding = None

\* The rows the INSERTs of one load make, in one transaction: ids from the
\* sequence, and one created_at for all (CURRENT_TIMESTAMP is the transaction's).
BatchRows(docs, first, ts) ==
    LET kept == SelectSeq(docs, LAMBDA d : ~Skipped(d))
    IN  {[id |-> first + i - 1, content |-> kept[i].content,
          embedding |-> kept[i].embedding, created_at |-> ts] : i \in 1..Len(kept)}

\* loaded_count when the failAt-th step of a batch of n inserts raised (n + 1 is
\* the commit, 0 is no failure): one per INSERT that returned.
LoadedCount(n, failAt) == IF failAt = 0 THEN n ELSE Min(failAt - 1, n)

\* Step 6.  The failAt-th step of the transaction raises; the handler rolls back
\* and returns loaded_count, or, when the rollback raises too, leaves run_etl by
\* the exception.  (The guard keeps the ids within MaxId.)
load_to_pgvector ==
    /\ pc = "load_to_pgvector"
    /\ LET rows == BatchRows(documents, id_seq, now)
           n == Cardinality(rows)
       IN  /\ id_seq + n <= MaxId + 1
           /\ \E failAt \in 0..(n + 1), rollback \in Outcomes :
               /\ ~dbUp => failAt # 0
               /\ raised' = (failAt # 0 /\ ~rollback)
               /\ loaded_count' = IF raised' THEN loaded_count
                                  ELSE LoadedCount(n, failAt)
               /\ loadFailed' = (failAt # 0)
               /\ committed' = IF failAt = 0 THEN {r.id : r \in rows} ELSE {}
               /\ table' = IF failAt = 0 THEN table \cup rows ELSE table
               /\ id_seq' = IF failAt = 0 THEN id_seq + n ELSE id_seq
               /\ now' = IF failAt = 0 THEN now + 1 ELSE now
               /\ sweep' = IF failAt = 0 /\ n > 0 THEN NoSweep ELSE sweep
               /\ stages' = Log("load_to_pgvector", failAt = 0)
               /\ success' = IF raised' THEN success ELSE "True"
               /\ pc' = "exit"
    /\ UNCHANGED <<etlConn, model, documents, exit_code, dbUp,
                   encodeFailed, request, response, conn>>

\* Mutant of Close: main without its finally clause.
CloseNothing(c) == c

\* PgVectorETL.close
Close(c) == IF c = "open" THEN "closed" ELSE c

\* sys.exit's code: 0 when run_etl returned True, 1 when it returned False or
\* raised.
ExitCode(ret, exc) == IF ~exc /\ ret = "True" THEN 0 ELSE 1

\* main: sys.exit, and the finally clause on the way out.
main_exit ==
    /\ pc = "exit"
    /\ exit_code' = ExitCode(success, raised)
    /\ etlConn' = Close(etlConn)
    /\ pc' = "exited"
    /\ UNCHANGED <<model, documents, encodeFailed, loaded_count, success, raised,
                   stages, loadFailed, committed, dbVars, apiVars>>

\* ---------------------------------------------------------- specification
Init ==
    /\ table = {}
    /\ id_seq = 1
    /\ now = 1
    /\ dbUp \in BOOLEAN
    /\ request = Req("none", 0, 0, 0, 0)
    /\ response = Resp("none", 0, "", 0, <<>>)
    /\ conn = "none"
    /\ sweep = NoSweep
    /\ pc = "connect_db"
    /\ etlConn = "none"
    /\ model = FALSE
    /\ documents = <<>>
    /\ encodeFailed = {}
    /\ loaded_count = 0
    /\ success = "False"
    /\ raised = FALSE
    /\ exit_code = -1
    /\ stages = <<>>
    /\ loadFailed = FALSE
    /\ committed = {}

\* The Query Service over its database.
Next ==
    \/ health_check
    \/ readiness_check
    \/ add_document
    \/ search_documents
    \/ list_documents
    \/ db_down
    \/ db_up

Spec == Init /\ [][Next]_vars

\* One run of the Batch Loader, beside a client paging through the documents.
NextLoader ==
    \/ connect_db
    \/ initialize_pgvector
    \/ load_embedding_model
    \/ extract_documents
    \/ generate_embeddings
    \/ load_to_pgvector
    \/ main_exit
    \/ list_documents
    \/ db_down
    \/ db_up

SpecLoader == Init /\ [][NextLoader]_vars

\* ------------------------------------------------------------------ claims
LoadRan == Len(stages) = Len(StageOrder)

Kept == SelectSeq(documents, LAMBDA d : ~Skipped(d))

\* C1: bulk_insert is all-or-nothing: a load without a storage error commits every
\* document that has an embedding and returns their number; a load that met a
\* storage error persists no row and returns zero.
C1_BulkInsertAllOrNothing ==
    LoadRan =>
        IF loadFailed
          THEN committed = {} /\ table = {} /\ loaded_count = 0
          ELSE Cardinality(committed) = Len(Kept) /\ loaded_count = Len(Kept)

\* C2: a run exits with 0 exactly when at least one document was extracted and
\* the load stage ran without a failure; every other run exits with 1 and has
\* inserted no row.
C2_RunOutcome ==
    pc = "exited" =>
        /\ exit_code \in {0, 1}
        /\ exit_code = 0 <=> (Len(documents) >= 1 /\ LoadRan /\ ~loadFailed)
        /\ exit_code = 1 => committed = {} /\ table = {}

\* C3: with N extracted documents of which K embeddings failed, a load without a
\* storage error inserts exactly N - K rows and returns N - K: one row for each
\* document whose embedding was computed, whatever failed before or after it.
C3_LoadedCountIsNMinusK ==
    (LoadRan /\ ~loadFailed) =>
        /\ encodeFailed \subseteq 1..Len(documents)
        /\ \A i \in 1..Len(documents) :
              documents[i].embedding = None <=> i \in encodeFailed
        /\ Cardinality(committed) = Len(documents) - Cardinality(encodeFailed)
        /\ loaded_count = Len(documents) - Cardinality(encodeFailed)
        /\ committed \subseteq {r.id : r \in table}
        /\ \A i \in (1..Len(documents)) \ encodeFailed :
              \E r \in table :
                  /\ r.id \in committed
                  /\ r.content = documents[i].content
                  /\ r.embedding = EmbeddingOf(documents[i].content)

C3_Witness ==
    /\ LoadRan /\ ~loadFailed
    /\ Len(documents) = 2
    /\ encodeFailed = {1}
    /\ Cardinality(committed) = 1

\* C4: when a handler of the Query Service has returned, the connection it opened
\* is closed, on the success path and on every error path.
C4_ConnectionClosed == conn # "open"

\* C5: add_document writes nothing partial: the table changes only in a step that
\* answers {id, status: success}, and that step adds exactly one row, with the
\* returned id; a request that fails answers 500 with the reason and leaves the
\* table as it was.
C5_NoPartialWrites ==
    [][ /\ table' # table =>
              (response'.op = "add_document" /\ response'.status = 200)
        /\ (response'.op = "add_document" /\ response'.status # 200) =>
              /\ response'.status = 500
              /\ response'.detail \in {"embedding", "connect", "execute", "commit"}
              /\ table' = table
        /\ (response'.op = "add_document" /\ response'.status = 200
              /\ response' # response) =>
              \E r \in table' :
                  /\ r \notin table
                  /\ table' = table \cup {r}
                  /\ r.id = response'.id
                  /\ \A x \in table : x.id # r.id
      ]_vars

C5_Witness ==
    /\ response.op = "add_document"
    /\ response.status = 500
    /\ response.detail = "commit"
    /\ table # {}

C7_PagesDisjointExhaustive ==
    sweep.done =>
        LET acc == sweep.acc
            created(id) == (CHOOSE r \in table : r.id = id).created_at
        IN  /\ \A i, j \in 1..Len(acc) : i # j => acc[i] # acc[j]
            /\ {acc[i] : i \in 1..Len(acc)} = {r.id : r \in table}
            /\ \A i, j \in 1..Len(acc) : i < j => created(acc[i]) >= created(acc[j])

\* C8: when the Batch Loader has exited, by whichever path, the connection it
\* opened is closed (and none is, if connect failed).
C8_ConnectionReleased ==
    pc = "exited" =>
        /\ etlConn # "open"
        /\ etlConn = "closed" <=> stages[1].ok

C8_Witness ==
    /\ pc = "exited"
    /\ raised
    /\ etlConn = "closed"

\* C9: /ready answers 200 when the database can be reached and 503 with the error
\* when it cannot; /health answers the static healthy payload in every state and
\* opens no connection.
C9_Probes ==
    [][ /\ (response'.op = "readiness_check" /\ dbUp' = dbUp) =>
              /\ response'.status = (IF dbUp THEN 200 ELSE 503)
              /\ response'.status = 503 => response'.detail = "connect"
        /\ response'.op = "health_check" =>
              /\ response' = Resp("health_check", 200, "healthy", 0, <<>>)
              /\ conn' = "none"
      ]_vars

C9_Witness ==
    /\ response.op = "readiness_check"
    /\ response.status = 503
    /\ ~dbUp

\* C10: the stages run in the order connect, ensure schema, load model, extract,
\* embed, load, each at most once; a failed connect, schema or model load, or an
\* empty extract, is the last stage of its run; and a row is inserted only by a
\* run in which those four succeeded.
C10_StageOrder ==
    /\ Len(stages) <= Len(StageOrder)
    /\ \A i \in 1..Len(stages) : stages[i].name = StageOrder[i]
    /\ \A i \in 1..Len(stages) : (i <= 4 /\ i < Len(stages)) => stages[i].ok
    /\ (committed # {} \/ table # {}) =>
          /\ LoadRan
          /\ \A i \in 1..4 : stages[i].ok
          /\ Len(documents) >= 1

C10_Witness ==
    /\ pc = "exited"
    /\ Len(stages) = 2
    /\ ~stages[2].ok
    /\ ~raised
    /\ table = {}

====
